---- MODULE Spec2Model ----
(***************************************************************************)
(* SmartReads recommendation engine (src/recommendation_engine.py) and the *)
(* engine life cycle of the web application (src/app.py).                  *)
(*                                                                         *)
(* Numbers.  Python floats are modelled in fixed point:                    *)
(*   - scores, popularity and confidence in thousandths (Scale),           *)
(*   - interaction weights in fifths (bare borrow 5, rating r -> r,        *)
(*     completed without rating 6),                                        *)
(*   - cosine similarities in hundredths (SimScale), rounded down.         *)
(* Orders.  list(set(...)) has no defined order in Python: string hashing  *)
(* is randomised per process, so the order is a function of the process's  *)
(* hash seed, which is chosen nondeterministically at start.               *)
(***************************************************************************)
EXTENDS Integers, Sequences, FiniteSets, TLC

\* ---------------------------------------------------------------- bounds
MaxRecords == 3
MaxHistory == 1
MaxN == 2
MaxLoads == 3
MaxBase == 30
LongHistoryLen == 6

\* ------------------------------------------------------------- fixed point
Scale == 1000
SimScale == 100
WeightUnit == 5

\* ------------------------------------------------------- generic helpers
Range(s) == {s[i] : i \in DOMAIN s}

Min2(a, b) == IF a <= b THEN a ELSE b

Contains(s, x) == \E i \in DOMAIN s : s[i] = x

\* list.index(x): the first position holding x
IndexOf(s, x) == CHOOSE i \in DOMAIN s : s[i] = x /\ \A j \in 1..(i-1) : s[j] # x

\* s[:k] of Python for k >= 0
Take(s, k) == SubSeq(s, 1, Min2(k, Len(s)))

\* s[-k:] of Python for k > 0
LastK(s, k) == IF Len(s) <= k THEN s ELSE SubSeq(s, Len(s) - k + 1, Len(s))

RECURSIVE SeqSum(_)
SeqSum(s) == IF s = <<>> THEN 0 ELSE Head(s) + SeqSum(Tail(s))

\* All sequences over S of length at most k.
RECURSIVE SeqsUpTo(_, _)
SeqsUpTo(S, k) ==
    IF k = 0 THEN {<<>>}
    ELSE LET shorter == SeqsUpTo(S, k - 1)
         IN  shorter \cup {Append(p, x) : p \in shorter, x \in S}

NoRepeat(s) == \A i, j \in DOMAIN s : i # j => s[i] # s[j]

\* floor(sqrt(x)) for 0 <= x, by bisection on lo <= sqrt(x) < hi
RECURSIVE ISqrtIn(_, _, _)
ISqrtIn(x, lo, hi) ==
    IF hi - lo <= 1 THEN lo
    ELSE LET mid == (lo + hi) \div 2
         IN  IF mid * mid <= x THEN ISqrtIn(x, mid, hi) ELSE ISqrtIn(x, lo, mid)

ISqrt(x) == ISqrtIn(x, 0, Min2(x, 40000) + 1)

\* sorted(s, key=Key, reverse=True): Python's sort is stable also when
\* reversed, so equal keys keep their order.  Position of s[i] in the output
\* is 1 + #(larger keys) + #(equal keys before i).
SortDesc(s, Key(_)) ==
    LET rank(i) == 1 + Cardinality({j \in DOMAIN s : Key(s[j]) > Key(s[i])})
                     + Cardinality({j \in DOMAIN s : j < i /\ Key(s[j]) = Key(s[i])})
    IN  [k \in DOMAIN s |-> s[CHOOSE i \in DOMAIN s : rank(i) = k]]

\* ------------------------------------------------------------ the universe
\* Book and student attributes are fixed per identifier (the engine never
\* changes them); only popularity_score and reading_history vary.
BookIds == {"b1", "b2", "b3"}
AllBooks == <<"b1", "b2", "b3">>
StudentIds == {"u1", "u2"}

BookGenre(b) ==
    CASE b = "b1" -> <<"Fantasy">>
      [] b = "b2" -> <<"Mystery">>
      [] OTHER    -> <<"Fantasy">>

BookLevel(b) ==
    CASE b = "b1" -> "3-5"
      [] b = "b2" -> "3-5"
      [] OTHER    -> "6-8"

\* The tokens TfidfVectorizer sees in
\* f"{title} {author} {genres} {subjects} {description}", lower-cased, stop
\* words removed.
BookText(b) ==
    CASE b = "b1" -> <<"dragon", "quest", "fantasy", "magic", "dragon">>
      [] b = "b2" -> <<"detective", "quest", "mystery", "clue">>
      [] OTHER    -> <<"dragon", "space", "fantasy", "magic">>

StudentLevel(u) == IF u = "u1" THEN "3-5" ELSE "6-8"

StudentPreferredGenres(u) == IF u = "u1" THEN <<"Fantasy">> ELSE <<"Mystery">>

\* word.lower() for every word of every interest.split()
InterestKeywords(u) == IF u = "u1" THEN {"dragons"} ELSE {"space", "travel"}

\* set(description.lower().split())
DescriptionWords(b) ==
    CASE b = "b1" -> {"a", "fantasy", "story", "about", "dragons"}
      [] b = "b2" -> {"a", "mystery", "story", "about", "clues"}
      [] OTHER    -> {"a", "fantasy", "story", "about", "space", "travel"}

\* A record is (student_id, book_id, rating, completed); rating 0 stands for
\* None and the dates are never read by the engine.  The logs below draw on
\* one record per (student, book): a bare borrow, a rated one or a completed
\* one without rating.
RecordOf(u, b) ==
    LET k == ((IF u = "u1" THEN 0 ELSE 1) + (CHOOSE i \in DOMAIN AllBooks : AllBooks[i] = b)) % 3
    IN  [student_id |-> u, book_id |-> b,
         rating |-> IF k = 0 THEN 3 ELSE 0,
         completed |-> k # 1]

\* ------------------------------------------------- CollaborativeFilter
NoMatrix == [none |-> TRUE, index |-> <<>>, columns |-> <<>>, val |-> <<>>]

NewCollaborativeFilter == [user_item_matrix |-> NoMatrix, user_similarity_matrix |-> NoMatrix]

\* value written into the matrix for one record, in fifths
RecordValue(r) ==
    IF r.rating # 0 THEN r.rating
    ELSE IF r.completed THEN WeightUnit + 1
    ELSE WeightUnit

\* the cell after all writes of fit's loop: the last record of (u, b) wins
CellValue(records, u, b) ==
    LET hits == {i \in DOMAIN records : records[i].student_id = u /\ records[i].book_id = b}
    IN  IF hits = {} THEN 0
        ELSE RecordValue(records[CHOOSE i \in hits : \A j \in hits : j <= i])

\* sklearn cosine_similarity of two rows over the columns, in hundredths
CosineSimilarity(x, y, columns) ==
    LET dot == SeqSum([i \in DOMAIN columns |-> x[columns[i]] * y[columns[i]]])
        nx  == SeqSum([i \in DOMAIN columns |-> x[columns[i]] * x[columns[i]]])
        ny  == SeqSum([i \in DOMAIN columns |-> y[columns[i]] * y[columns[i]]])
    IN  IF nx = 0 \/ ny = 0 THEN 0
        ELSE CHOOSE r \in 0..SimScale :
                /\ r * r * nx * ny <= dot * dot * SimScale * SimScale
                /\ \/ r = SimScale
                   \/ (r + 1) * (r + 1) * nx * ny > dot * dot * SimScale * SimScale

\* CollaborativeFilter.fit, user_ids and book_ids being the two list(set(...))
\* in the order they come out.  The similarity matrix is assigned only when there
\* is more than one user; otherwise the attribute keeps its old value.
CollabFit(cf, records, user_ids, book_ids) ==
    LET val == [u \in Range(user_ids) |-> [b \in Range(book_ids) |-> CellValue(records, u, b)]]
        sim == [u \in Range(user_ids) |->
                   [v \in Range(user_ids) |-> CosineSimilarity(val[u], val[v], book_ids)]]
    IN  [user_item_matrix |->
             [none |-> FALSE, index |-> user_ids, columns |-> book_ids, val |-> val],
         user_similarity_matrix |->
             IF Len(user_ids) > 1
             THEN [none |-> FALSE, index |-> user_ids, columns |-> user_ids, val |-> sim]
             ELSE cf.user_similarity_matrix]

\* Series.nlargest(n): the n largest, descending, first occurrence first
NLargest(index, Key(_), n) == Take(SortDesc(index, Key), n)

NeighbourCount == 6

\* the neighbours: nlargest(6) of the student's similarity column, first dropped
SimilarUsers(cf, student_id) ==
    LET sm  == cf.user_similarity_matrix
        top == NLargest(sm.index, LAMBDA u : sm.val[u][student_id], NeighbourCount)
    IN  SubSeq(top, 2, Len(top))

\* the test of the neighbour loop: the student's own cell of the book is 0
AlreadyReadIgnored(m, student_id, book_id) == TRUE

NotAlreadyRead(m, student_id, book_id) == m.val[student_id][book_id] = 0

\* CollaborativeFilter.recommend: [raised, recs], recs a sequence of
\* [book_id, score] with score in thousandths.  raised stands for the
\* KeyError of a label missing from a DataFrame.
CollabRecommend(cf, student_id, n) ==
    LET m  == cf.user_item_matrix
        sm == cf.user_similarity_matrix
    IN  IF m.none THEN [raised |-> FALSE, recs |-> <<>>]
        ELSE IF ~Contains(m.index, student_id)
        THEN \* cold start: the columns by their sums
             LET colsum(b) == SeqSum([i \in DOMAIN m.index |-> m.val[m.index[i]][b]])
                 top == NLargest(m.columns, colsum, n)
             IN  [raised |-> FALSE,
                  recs |-> [i \in DOMAIN top |->
                               [book_id |-> top[i],
                                score |-> colsum(top[i]) * (Scale \div WeightUnit)]]]
        ELSE IF sm.none THEN [raised |-> FALSE, recs |-> <<>>]
        ELSE IF ~Contains(sm.columns, student_id) THEN [raised |-> TRUE, recs |-> <<>>]
        ELSE LET similar_users == SimilarUsers(cf, student_id)
             IN  IF \E i \in DOMAIN similar_users : ~Contains(m.index, similar_users[i])
                 THEN [raised |-> TRUE, recs |-> <<>>]
                 ELSE
                 LET nc == Len(m.columns)
                     \* the (user, book) pairs in the order the loops visit them
                     visit == [k \in 1..(Len(similar_users) * nc) |->
                                 [user |-> similar_users[((k - 1) \div nc) + 1],
                                  book |-> m.columns[((k - 1) % nc) + 1]]]
                     adds(k) == /\ m.val[visit[k].user][visit[k].book] > 0
                                /\ NotAlreadyRead(m, student_id, visit[k].book)
                     amount(k) == m.val[visit[k].user][visit[k].book]
                                    * sm.val[student_id][visit[k].user]
                                    * (Scale \div (WeightUnit * SimScale))
                     firsts == SelectSeq([k \in DOMAIN visit |-> k],
                                  LAMBDA k : adds(k) /\ \A j \in 1..(k - 1) :
                                      ~(adds(j) /\ visit[j].book = visit[k].book))
                     total(b) == SeqSum([k \in DOMAIN visit |->
                                    IF adds(k) /\ visit[k].book = b THEN amount(k) ELSE 0])
                     items == [i \in DOMAIN firsts |->
                                 [book_id |-> visit[firsts[i]].book,
                                  score |-> total(visit[firsts[i]].book)]]
                 IN  [raised |-> FALSE,
                      recs |-> Take(SortDesc(items, LAMBDA x : x.score), n)]

\* --------------------------------------------------- ContentBasedFilter
NewContentFilter == [book_ids |-> <<>>, none |-> TRUE, book_features |-> <<>>]

HistoryWindow == 10

\* every token of every book text, in a fixed order (sums run over it)
AllTerms == <<"dragon", "quest", "fantasy", "magic", "detective", "mystery", "clue", "space">>

\* sum of F(t) over the terms of vocab
TermSum(vocab, F(_)) ==
    SeqSum([k \in DOMAIN AllTerms |-> IF AllTerms[k] \in vocab THEN F(AllTerms[k]) ELSE 0])

\* ln(num / den) in hundredths, for the ratios (1 + n) / (1 + df) of up to
\* three documents
LnHundredths(num, den) ==
    CASE num = den            -> 0
      [] num = 3 /\ den = 2   -> 40
      [] num = 4 /\ den = 3   -> 28
      [] OTHER                -> 69

\* TfidfVectorizer.fit_transform with its defaults (smooth idf, l2 norm): one
\* row per document, a function from the vocabulary to hundredths
TfidfRows(books) ==
    LET vocab  == UNION {Range(BookText(books[i])) : i \in DOMAIN books}
        n      == Len(books)
        tf(t, i) == Cardinality({k \in DOMAIN BookText(books[i]) : BookText(books[i])[k] = t})
        df(t)  == Cardinality({i \in DOMAIN books : tf(t, i) > 0})
        idf    == [t \in vocab |-> LnHundredths(1 + n, 1 + df(t)) + SimScale]
        row(i) == LET raw  == [t \in vocab |-> tf(t, i) * idf[t]]
                      norm == ISqrt(TermSum(vocab, LAMBDA t : raw[t] * raw[t]))
                  IN  [t \in vocab |-> IF norm = 0 THEN 0 ELSE (raw[t] * SimScale) \div norm]
    IN  [i \in DOMAIN books |-> row(i)]

\* ContentBasedFilter.fit: book_ids is always replaced, the features only
\* when there is at least one book
ContentFit(cfilter, books) ==
    IF books = <<>>
    THEN [cfilter EXCEPT !.book_ids = <<>>]
    ELSE [book_ids |-> books, none |-> FALSE, book_features |-> TfidfRows(books)]

\* cosine_similarity(avg_profile, row), in hundredths
ProfileSimilarity(profile, row) ==
    LET vocab == DOMAIN row
        dot   == TermSum(vocab, LAMBDA t : profile[t] * row[t])
        np    == ISqrt(TermSum(vocab, LAMBDA t : profile[t] * profile[t]))
        nr    == ISqrt(TermSum(vocab, LAMBDA t : row[t] * row[t]))
    IN  IF np = 0 \/ nr = 0 THEN 0 ELSE (dot * SimScale) \div (np * nr)

\* a content model that answers without a reading history: every fitted
\* book at score 0
ContentRecommendWithoutHistory(cfilter, reading_history, n) ==
    IF cfilter.none THEN <<>>
    ELSE Take([i \in DOMAIN cfilter.book_ids |->
                  [book_id |-> cfilter.book_ids[i], score |-> 0]], n)

\* ContentBasedFilter.recommend: a sequence of [book_id, score], score in
\* thousandths
ContentRecommend(cfilter, reading_history, n) ==
    IF cfilter.none \/ reading_history = <<>> THEN <<>>
    ELSE
    LET recent == LastK(reading_history, HistoryWindow)
        found  == SelectSeq(recent, LAMBDA b : Contains(cfilter.book_ids, b))
        history_indices == [i \in DOMAIN found |-> IndexOf(cfilter.book_ids, found[i])]
    IN  IF history_indices = <<>> THEN <<>>
        ELSE
        LET rows  == cfilter.book_features
            vocab == DOMAIN rows[1]
            avg_profile == [t \in vocab |->
                SeqSum([i \in DOMAIN history_indices |-> rows[history_indices[i]][t]])
                    \div Len(history_indices)]
            unread == SelectSeq([i \in DOMAIN cfilter.book_ids |-> i],
                          LAMBDA i : ~Contains(reading_history, cfilter.book_ids[i]))
            recommendations == [k \in DOMAIN unread |->
                [book_id |-> cfilter.book_ids[unread[k]],
                 score |-> ProfileSimilarity(avg_profile, rows[unread[k]])
                             * (Scale \div SimScale)]]
        IN  Take(SortDesc(recommendations, LAMBDA x : x.score), n)

\* ------------------------------------------------------- LLMRecommender
GenreBoost == 100
LevelBoost == 50
InterestBoost == 150

\* LLMRecommender._mock_llm_enhancement: the boost a book earns for a student
ScoreBoost(student_id, book_id) ==
    LET genre == BookGenre(book_id)
        prefs == StudentPreferredGenres(student_id)
        matched_genres == SelectSeq(genre, LAMBDA g : Contains(prefs, g))
    IN    (IF matched_genres # <<>> THEN GenreBoost ELSE 0)
        + (IF BookLevel(book_id) = StudentLevel(student_id) THEN LevelBoost ELSE 0)
        + (IF InterestKeywords(student_id) \cap DescriptionWords(book_id) # {}
           THEN InterestBoost ELSE 0)

\* the enhancement without the cap at 1.0
EnhancedScoreUncapped(student_id, book_id, base_score) ==
    base_score + ScoreBoost(student_id, book_id)

\* the enhancement with the reading-level boost left out of the sum
EnhancedScoreNoLevel(student_id, book_id, base_score) ==
    Min2(Scale, base_score + ScoreBoost(student_id, book_id)
                  - (IF BookLevel(book_id) = StudentLevel(student_id) THEN LevelBoost ELSE 0))

\* LLMRecommender._mock_llm_enhancement: the enhanced score
EnhancedScore(student_id, book_id, base_score) ==
    Min2(Scale, base_score + ScoreBoost(student_id, book_id))

\* ------------------------------------------- SmartReadsRecommendationEngine
\* books_catalog is the dict in insertion order: a sequence of
\* [book_id, popularity_score]; students maps the known ids to their
\* reading_history.
InCatalog(catalog, b) == \E i \in DOMAIN catalog : catalog[i].book_id = b

CatalogIds(catalog) == {catalog[i].book_id : i \in DOMAIN catalog}

Popularity(catalog, b) == catalog[CHOOSE i \in DOMAIN catalog : catalog[i].book_id = b].popularity_score

PopularityConfidence == 500
DiversityConfidence == 600
DiversityBase == 700
DiversityWeight == 300
CollabConfidenceSpan == 10
ContentConfidenceSpan == 5

\* the popular books taken in catalog order, the sort left out
GetPopularBooksUnsorted(catalog, n) ==
    LET popular_books == Take(catalog, n)
    IN  [i \in DOMAIN popular_books |->
            [book_id |-> popular_books[i].book_id,
             score |-> popular_books[i].popularity_score,
             strategy |-> "popularity",
             confidence |-> PopularityConfidence]]

\* _get_popular_books
GetPopularBooks(catalog, n) ==
    LET popular_books == Take(SortDesc(catalog, LAMBDA x : x.popularity_score), n)
    IN  [i \in DOMAIN popular_books |->
            [book_id |-> popular_books[i].book_id,
             score |-> popular_books[i].popularity_score,
             strategy |-> "popularity",
             confidence |-> PopularityConfidence]]

\* the collaborative step with the catalog test left out
CollabStepUnfiltered(catalog, student_id, history, collab_recs, n) ==
    LET kept == Take(collab_recs, n \div 2)
    IN  [i \in DOMAIN kept |->
            [book_id |-> kept[i].book_id,
             score |-> EnhancedScore(student_id, kept[i].book_id, kept[i].score),
             strategy |-> "collaborative",
             confidence |-> Min2(Scale, (Len(history) * Scale) \div CollabConfidenceSpan)]]

\* Strategy 1 of recommend: the recommendations of the collaborative step
CollabStep(catalog, student_id, history, collab_recs, n) ==
    LET first == Take(collab_recs, n \div 2)
        kept  == SelectSeq(first, LAMBDA c : InCatalog(catalog, c.book_id))
    IN  [i \in DOMAIN kept |->
            [book_id |-> kept[i].book_id,
             score |-> EnhancedScore(student_id, kept[i].book_id, kept[i].score),
             strategy |-> "collaborative",
             confidence |-> Min2(Scale, (Len(history) * Scale) \div CollabConfidenceSpan)]]

\* the content step with its confidence not cut at 1.0
ContentStepUncutConfidence(catalog, student_id, history, content_recs, so_far, n) ==
    LET first == Take(content_recs, n \div 2)
        keep(k) == /\ InCatalog(catalog, first[k].book_id)
                   /\ \A i \in DOMAIN so_far : so_far[i].book_id # first[k].book_id
                   /\ \A j \in 1..(k - 1) : first[j].book_id # first[k].book_id
        kept  == SelectSeq([k \in DOMAIN first |-> k], keep)
    IN  [i \in DOMAIN kept |->
            [book_id |-> first[kept[i]].book_id,
             score |-> EnhancedScore(student_id, first[kept[i]].book_id, first[kept[i]].score),
             strategy |-> "content",
             confidence |-> (Len(history) * Scale) \div ContentConfidenceSpan]]

\* Strategy 2 of recommend: what the content step appends to `so_far`
ContentStep(catalog, student_id, history, content_recs, so_far, n) ==
    LET first == Take(content_recs, n \div 2)
        keep(k) == /\ InCatalog(catalog, first[k].book_id)
                   /\ \A i \in DOMAIN so_far : so_far[i].book_id # first[k].book_id
                   /\ \A j \in 1..(k - 1) : first[j].book_id # first[k].book_id
        kept  == SelectSeq([k \in DOMAIN first |-> k], keep)
    IN  [i \in DOMAIN kept |->
            [book_id |-> first[kept[i]].book_id,
             score |-> EnhancedScore(student_id, first[kept[i]].book_id, first[kept[i]].score),
             strategy |-> "content",
             confidence |-> Min2(Scale, (Len(history) * Scale) \div ContentConfidenceSpan)]]

\* the diversity step with the reading-level test left out
DiversityStepAnyLevel(catalog, student_id, history, so_far, n) ==
    IF Len(so_far) >= n THEN <<>>
    ELSE
    LET explored_genres == UNION {Range(BookGenre(b)) :
                                     b \in {h \in Range(history) : InCatalog(catalog, h)}}
        qualifies(entry) ==
            /\ ~Contains(history, entry.book_id)
            /\ Range(BookGenre(entry.book_id)) \ explored_genres # {}
        added == Take(SelectSeq(catalog, qualifies), n - Len(so_far))
    IN  [i \in DOMAIN added |->
            [book_id |-> added[i].book_id,
             score |-> DiversityBase + (added[i].popularity_score * DiversityWeight) \div Scale,
             strategy |-> "diversity",
             confidence |-> DiversityConfidence]]

\* the diversity step entered whatever the length of the list: the loop
\* appends before it tests the length
DiversityStepUnguarded(catalog, student_id, history, so_far, n) ==
    LET explored_genres == UNION {Range(BookGenre(b)) :
                                     b \in {h \in Range(history) : InCatalog(catalog, h)}}
        qualifies(entry) ==
            /\ ~Contains(history, entry.book_id)
            /\ Range(BookGenre(entry.book_id)) \ explored_genres # {}
            /\ BookLevel(entry.book_id) = StudentLevel(student_id)
        added == Take(SelectSeq(catalog, qualifies),
                      IF Len(so_far) >= n THEN 1 ELSE n - Len(so_far))
    IN  [i \in DOMAIN added |->
            [book_id |-> added[i].book_id,
             score |-> DiversityBase + (added[i].popularity_score * DiversityWeight) \div Scale,
             strategy |-> "diversity",
             confidence |-> DiversityConfidence]]

\* the diversity step with the break of its loop left out
DiversityStepNoBreak(catalog, student_id, history, so_far, n) ==
    IF Len(so_far) >= n THEN <<>>
    ELSE
    LET explored_genres == UNION {Range(BookGenre(b)) :
                                     b \in {h \in Range(history) : InCatalog(catalog, h)}}
        qualifies(entry) ==
            /\ ~Contains(history, entry.book_id)
            /\ Range(BookGenre(entry.book_id)) \ explored_genres # {}
            /\ BookLevel(entry.book_id) = StudentLevel(student_id)
        added == SelectSeq(catalog, qualifies)
    IN  [i \in DOMAIN added |->
            [book_id |-> added[i].book_id,
             score |-> DiversityBase + (added[i].popularity_score * DiversityWeight) \div Scale,
             strategy |-> "diversity",
             confidence |-> DiversityConfidence]]

\* Strategy 3 of recommend: what the diversity step appends to `so_far`
DiversityStep(catalog, student_id, history, so_far, n) ==
    IF Len(so_far) >= n THEN <<>>
    ELSE
    LET explored_genres == UNION {Range(BookGenre(b)) :
                                     b \in {h \in Range(history) : InCatalog(catalog, h)}}
        qualifies(entry) ==
            /\ ~Contains(history, entry.book_id)
            /\ Range(BookGenre(entry.book_id)) \ explored_genres # {}
            /\ BookLevel(entry.book_id) = StudentLevel(student_id)
        \* the loop breaks once the list holds n entries
        added == Take(SelectSeq(catalog, qualifies), n - Len(so_far))
    IN  [i \in DOMAIN added |->
            [book_id |-> added[i].book_id,
             score |-> DiversityBase + (added[i].popularity_score * DiversityWeight) \div Scale,
             strategy |-> "diversity",
             confidence |-> DiversityConfidence]]

\* the tail of recommend sorting the list from its end: equal scores come out
\* in reverse
SortAndReturnTiesReversed(collab_recs, content_recs, recommendations, n) ==
    [raised |-> FALSE, known |-> TRUE,
     recommendations |->
         Take(SortDesc([i \in DOMAIN recommendations |->
                           recommendations[Len(recommendations) + 1 - i]],
                       LAMBDA x : x.score), n),
     collab_recs |-> collab_recs, content_recs |-> content_recs,
     candidates |-> recommendations]

\* The tail of recommend: sort by score, truncate, return.  The record keeps
\* the intermediate lists of the call beside the list returned.
SortAndReturn(collab_recs, content_recs, recommendations, n) ==
    [raised |-> FALSE, known |-> TRUE,
     recommendations |-> Take(SortDesc(recommendations, LAMBDA x : x.score), n),
     collab_recs |-> collab_recs, content_recs |-> content_recs,
     candidates |-> recommendations]

AfterContent(catalog, student_id, history, collab_recs, content_recs, recommendations, n) ==
    SortAndReturn(collab_recs, content_recs,
        recommendations \o DiversityStep(catalog, student_id, history, recommendations, n), n)

AfterCollab(catalog, student_id, history, collab_recs, content_recs, recommendations, n) ==
    AfterContent(catalog, student_id, history, collab_recs, content_recs,
        recommendations
            \o ContentStep(catalog, student_id, history, content_recs, recommendations, n), n)

RecommendKnown(catalog, cfilter, student_id, history, collab, n) ==
    IF collab.raised
    THEN [raised |-> TRUE, known |-> TRUE, recommendations |-> <<>>,
          collab_recs |-> <<>>, content_recs |-> <<>>, candidates |-> <<>>]
    ELSE AfterCollab(catalog, student_id, history, collab.recs,
             ContentRecommend(cfilter, history, n * 2),
             CollabStep(catalog, student_id, history, collab.recs, n), n)

\* SmartReadsRecommendationEngine.recommend.  raised: an exception left the
\* call; recommendations: the list returned.
EngineRecommend(catalog, studs, cf, cfilter, student_id, n) ==
    IF student_id \notin DOMAIN studs
    THEN [raised |-> FALSE, known |-> FALSE,
          recommendations |-> GetPopularBooks(catalog, n),
          collab_recs |-> <<>>, content_recs |-> <<>>, candidates |-> <<>>]
    ELSE RecommendKnown(catalog, cfilter, student_id, studs[student_id],
                        CollabRecommend(cf, student_id, n * 2), n)

\* load_catalog's loop: books[k] replaces the entry of its id where it is, or
\* is appended; a Book arrives with the default popularity_score 0.0
RECURSIVE PutBooks(_, _)
PutBooks(catalog, books) ==
    IF books = <<>> THEN catalog
    ELSE LET entry == [book_id |-> Head(books), popularity_score |-> 0]
             next  == IF InCatalog(catalog, Head(books))
                      THEN [i \in DOMAIN catalog |->
                               IF catalog[i].book_id = Head(books) THEN entry ELSE catalog[i]]
                      ELSE Append(catalog, entry)
         IN  PutBooks(next, Tail(books))

\* load_students' loop over a list given as id -> reading_history
PutStudents(studs, new) ==
    [u \in DOMAIN studs \cup DOMAIN new |-> IF u \in DOMAIN new THEN new[u] ELSE studs[u]]

\* the popularity update of load_borrowing_history
UpdatePopularity(catalog, records) ==
    LET borrow_count(b) == Cardinality({i \in DOMAIN records : records[i].book_id = b})
        borrowed  == {records[i].book_id : i \in DOMAIN records}
        max_count == IF borrowed = {} THEN 1
                     ELSE CHOOSE c \in {borrow_count(b) : b \in borrowed} :
                              \A b \in borrowed : borrow_count(b) <= c
    IN  [i \in DOMAIN catalog |->
            IF catalog[i].book_id \in borrowed
            THEN [catalog[i] EXCEPT !.popularity_score =
                     (borrow_count(catalog[i].book_id) * Scale) \div max_count]
            ELSE catalog[i]]

\* ------------------------------------------------------------------ state
VARIABLES
    books_catalog,          \* SmartReadsRecommendationEngine.books_catalog
    students,               \* .students
    borrowing_records,      \* .borrowing_records
    collaborative_filter,   \* .collaborative_filter
    content_filter,         \* .content_filter
    hash_seed,              \* the process's string hash seed
    call,                   \* the last operation and its arguments
    ret,                    \* what the last recommend returned
    loads,                  \* number of loader calls so far
    engine_ready,           \* app.py: recommendation_engine is not None
    reload,                 \* the reload in progress or finished last
    response                \* the last HTTP response of the application

engine_vars == <<books_catalog, students, borrowing_records, collaborative_filter,
                 content_filter>>

app_vars == <<engine_ready, reload, response>>

vars == <<books_catalog, students, borrowing_records, collaborative_filter,
          content_filter, hash_seed, call, ret, loads, engine_ready, reload, response>>

NoStudents == [u \in {} |-> <<>>]

NoRet == [raised |-> FALSE, known |-> FALSE, recommendations |-> <<>>,
          collab_recs |-> <<>>, content_recs |-> <<>>, candidates |-> <<>>]

NoCall == [op |-> "none", student_id |-> "", n |-> 0,
           books |-> <<>>, students |-> NoStudents, records |-> <<>>,
           book_id |-> "", base_score |-> 0]

\* ----------------------------------------------------------------- inputs
\* book lists: the prefixes of the catalogue, and its last book alone
CatalogInputs ==
    {SubSeq(AllBooks, 1, k) : k \in 0..Len(AllBooks)} \cup {<<AllBooks[Len(AllBooks)]>>}

HistoryInputs == {h \in SeqsUpTo(BookIds, MaxHistory) : NoRepeat(h)}

\* a history long enough for min(1.0, len / 5) to cut: one book borrowed again
\* and again
LongHistory == [i \in 1..LongHistoryLen |-> "b2"]

\* student lists: u1 alone with any history, or both students without history
StudentInputs ==
    {[u \in {"u1"} |-> h] : h \in HistoryInputs \cup {LongHistory}}
        \cup {[u \in StudentIds |-> <<>>]}

\* the (student, book) pairs the logs draw on, in a fixed order
AllPairs == <<<<"u1", "b1">>, <<"u1", "b3">>, <<"u2", "b1">>, <<"u2", "b2">>>>

\* interaction logs of at most MaxRecords records, one per chosen pair
RecordInputs ==
    {[i \in DOMAIN picked |-> RecordOf(AllPairs[picked[i]][1], AllPairs[picked[i]][2])] :
        picked \in {SelectSeq([i \in DOMAIN AllPairs |-> i], LAMBDA i : i \in S) :
                       S \in {T \in SUBSET DOMAIN AllPairs : Cardinality(T) <= MaxRecords}}}

\* the order list(set(S)) comes out in: fixed by the process's hash seed
HashSeeds == {1, 2}

SetOrder(seed, S) ==
    LET all == AllBooks \o <<"u1", "u2">> \o <<"dragons", "space", "travel">>
        asc == SelectSeq(all, LAMBDA x : x \in S)
    IN  IF seed = 1 THEN asc ELSE [i \in DOMAIN asc |-> asc[Len(asc) + 1 - i]]

\* the engine as one value: what a reader can observe of it
Engine ==
    [books_catalog |-> books_catalog, students |-> students,
     borrowing_records |-> borrowing_records,
     collaborative_filter |-> collaborative_filter, content_filter |-> content_filter]

\* SmartReadsRecommendationEngine.__init__
NewEngine ==
    [books_catalog |-> <<>>, students |-> NoStudents, borrowing_records |-> <<>>,
     collaborative_filter |-> NewCollaborativeFilter, content_filter |-> NewContentFilter]

NoDataset == [books |-> <<>>, students |-> NoStudents, records |-> <<>>]

NoReload == [pc |-> "idle", outcome |-> "none", dataset |-> NoDataset,
             before |-> NewEngine, before_ready |-> FALSE, after |-> NewEngine]

NoResponse == [status |-> 0, detail |-> "", body |-> <<>>]

\* a constructed engine, nothing loaded; no application around it
Init ==
    /\ books_catalog = <<>>
    /\ students = NoStudents
    /\ borrowing_records = <<>>
    /\ collaborative_filter = NewCollaborativeFilter
    /\ content_filter = NewContentFilter
    /\ hash_seed \in HashSeeds
    /\ call = NoCall
    /\ ret = NoRet
    /\ loads = 0
    /\ engine_ready = FALSE
    /\ reload = NoReload
    /\ response = NoResponse

\* one more load or reload, while the bound allows it
CountLoad == loads < MaxLoads /\ loads' = loads + 1

\* load_catalog on engine e: the dict is updated, the content model is
\* fitted on the list passed
AfterLoadCatalog(e, books) ==
    [e EXCEPT !.books_catalog = PutBooks(e.books_catalog, books),
              !.content_filter = ContentFit(e.content_filter, books)]

\* load_students on engine e
AfterLoadStudents(e, new) ==
    [e EXCEPT !.students = PutStudents(e.students, new)]

\* load_borrowing_history on engine e, in a process of hash seed `seed`
AfterLoadBorrowingHistory(e, records, seed) ==
    [e EXCEPT !.borrowing_records = records,
              !.collaborative_filter =
                  CollabFit(e.collaborative_filter, records,
                            SetOrder(seed, {records[i].student_id : i \in DOMAIN records}),
                            SetOrder(seed, {records[i].book_id : i \in DOMAIN records})),
              !.books_catalog = UpdatePopularity(e.books_catalog, records)]

\* load_catalog(books)
LoadCatalog(books) ==
    /\ LET e == AfterLoadCatalog(Engine, books)
       IN  books_catalog' = e.books_catalog /\ content_filter' = e.content_filter
    /\ UNCHANGED <<students, borrowing_records, collaborative_filter, hash_seed>>

\* load_students(students)
LoadStudents(new) ==
    /\ students' = AfterLoadStudents(Engine, new).students
    /\ UNCHANGED <<books_catalog, borrowing_records, collaborative_filter, content_filter,
                   hash_seed>>

\* load_borrowing_history(records)
LoadBorrowingHistory(records) ==
    /\ LET e == AfterLoadBorrowingHistory(Engine, records, hash_seed)
       IN  /\ borrowing_records' = e.borrowing_records
           /\ collaborative_filter' = e.collaborative_filter
           /\ books_catalog' = e.books_catalog
    /\ UNCHANGED <<students, content_filter, hash_seed>>

\* a recommend that notes what it returned in the student's reading history
RecommendAndRecord(student_id, n) ==
    LET r == EngineRecommend(books_catalog, students, collaborative_filter,
                             content_filter, student_id, n)
    IN  /\ call' = [NoCall EXCEPT !.op = "recommend", !.student_id = student_id, !.n = n]
        /\ ret' = r
        /\ students' = IF student_id \in DOMAIN students
                       THEN [students EXCEPT ![student_id] =
                                @ \o [i \in DOMAIN r.recommendations |->
                                         r.recommendations[i].book_id]]
                       ELSE students
        /\ UNCHANGED <<books_catalog, borrowing_records, collaborative_filter,
                       content_filter, hash_seed, loads>>

\* recommend(student_id, n)
Recommend(student_id, n) ==
    /\ call' = [NoCall EXCEPT !.op = "recommend", !.student_id = student_id, !.n = n]
    /\ ret' = EngineRecommend(books_catalog, students, collaborative_filter,
                              content_filter, student_id, n)
    /\ UNCHANGED <<books_catalog, students, borrowing_records, collaborative_filter,
                   content_filter, hash_seed, loads>>

MostActiveCount == 5

\* get_analytics: the dict returned; ratios in thousandths
Analytics(catalog, studs, records) ==
    LET total_students == Cardinality(DOMAIN studs)
        total_books    == Len(catalog)
        total_borrows  == Len(records)
        counted == {k \in DOMAIN records : InCatalog(catalog, records[k].book_id)}
        genre_count(g) ==
            Cardinality({<<k, i>> \in counted \X (1..3) :
                            /\ i \in DOMAIN BookGenre(records[k].book_id)
                            /\ BookGenre(records[k].book_id)[i] = g})
        genres == UNION {Range(BookGenre(records[k].book_id)) : k \in counted}
        student_activity(u) == Cardinality({k \in DOMAIN records : records[k].student_id = u})
        \* the keys of student_activity in insertion order
        firsts == SelectSeq([k \in DOMAIN records |-> k],
                      LAMBDA k : \A j \in 1..(k - 1) :
                                    records[j].student_id # records[k].student_id)
        readers == [i \in DOMAIN firsts |->
                       [student_id |-> records[firsts[i]].student_id,
                        count |-> student_activity(records[firsts[i]].student_id)]]
    IN  [total_students |-> total_students,
         total_books |-> total_books,
         total_borrowing_records |-> total_borrows,
         average_books_per_student |->
             IF total_students > 0 THEN (total_borrows * Scale) \div total_students ELSE 0,
         genre_distribution |-> [g \in genres |-> genre_count(g)],
         most_active_readers |-> Take(SortDesc(readers, LAMBDA x : x.count), MostActiveCount),
         catalog_coverage |->
             IF total_books > 0
             THEN (Cardinality({records[k].book_id : k \in DOMAIN records}) * Scale)
                      \div total_books
             ELSE 0]

\* get_analytics()
GetAnalytics ==
    /\ call' = [NoCall EXCEPT !.op = "get_analytics"]
    /\ ret' = Analytics(books_catalog, students, borrowing_records)
    /\ UNCHANGED <<books_catalog, students, borrowing_records, collaborative_filter,
                   content_filter, hash_seed, loads>>

\* the observation of a loader call: nothing is returned
Loaded(op, books, new, records) ==
    /\ call' = [NoCall EXCEPT !.op = op, !.books = books, !.students = new,
                              !.records = records]
    /\ ret' = NoRet

\* the engine under any interleaving of loads and recommend calls; a load
\* clears the observation of the last recommend
Next ==
    \/ \E books \in CatalogInputs :
           CountLoad /\ LoadCatalog(books) /\ call' = NoCall /\ ret' = NoRet
               /\ UNCHANGED app_vars
    \/ \E new \in StudentInputs :
           CountLoad /\ LoadStudents(new) /\ call' = NoCall /\ ret' = NoRet
               /\ UNCHANGED app_vars
    \/ \E records \in RecordInputs :
           CountLoad /\ LoadBorrowingHistory(records) /\ call' = NoCall /\ ret' = NoRet
               /\ UNCHANGED app_vars
    \/ \E student_id \in StudentIds : \E n \in 0..MaxN :
           Recommend(student_id, n) /\ UNCHANGED app_vars
    \/ GetAnalytics /\ UNCHANGED app_vars

Spec == Init /\ [][Next]_vars

\* the loaders alone, each call observed with its argument
NextLoad ==
    \/ \E books \in CatalogInputs :
           CountLoad /\ LoadCatalog(books)
               /\ Loaded("load_catalog", books, NoStudents, <<>>)
               /\ UNCHANGED app_vars
    \/ \E new \in StudentInputs :
           CountLoad /\ LoadStudents(new)
               /\ Loaded("load_students", <<>>, new, <<>>)
               /\ UNCHANGED app_vars
    \/ \E records \in RecordInputs :
           CountLoad /\ LoadBorrowingHistory(records)
               /\ Loaded("load_borrowing_history", <<>>, NoStudents, records)
               /\ UNCHANGED app_vars

SpecLoad == Init /\ [][NextLoad]_vars

\* ------------------------------------------------- a reload beside a reader
\* the data sets a reload brings: files of books, students and records
Datasets ==
    {[books |-> c, students |-> [u \in StudentIds |-> <<>>], records |-> r] :
        c \in {AllBooks, Take(AllBooks, 2)},
        r \in {x \in RecordInputs : /\ Len(x) = Min2(MaxRecords, Len(AllPairs))
                                     /\ x[1].book_id = "b1" /\ x[2].book_id = "b3"}
                 \cup {<<RecordOf("u1", "b1")>>}}

\* the engine e after the three loader calls of a reload
AfterReload(e, dataset, seed) ==
    AfterLoadBorrowingHistory(
        AfterLoadStudents(AfterLoadCatalog(e, dataset.books), dataset.students),
        dataset.records, seed)

\* a thread starts the three loader calls on the engine
BeginReload(dataset) ==
    /\ reload.pc = "idle"
    /\ CountLoad
    /\ reload' = [pc |-> "load_catalog", outcome |-> "running", dataset |-> dataset,
                  before |-> Engine, before_ready |-> engine_ready,
                  after |-> AfterReload(Engine, dataset, hash_seed)]
    /\ UNCHANGED <<engine_vars, hash_seed, engine_ready, response, call, ret>>

ReloadCatalog ==
    /\ reload.pc = "load_catalog"
    /\ LoadCatalog(reload.dataset.books)
    /\ reload' = [reload EXCEPT !.pc = "load_students"]
    /\ call' = NoCall /\ ret' = NoRet
    /\ UNCHANGED <<loads, engine_ready, response>>

ReloadStudents ==
    /\ reload.pc = "load_students"
    /\ LoadStudents(reload.dataset.students)
    /\ reload' = [reload EXCEPT !.pc = "load_borrowing_history"]
    /\ call' = NoCall /\ ret' = NoRet
    /\ UNCHANGED <<loads, engine_ready, response>>

ReloadBorrowingHistory ==
    /\ reload.pc = "load_borrowing_history"
    /\ LoadBorrowingHistory(reload.dataset.records)
    /\ reload' = [reload EXCEPT !.pc = "idle", !.outcome = "done"]
    /\ call' = NoCall /\ ret' = NoRet
    /\ UNCHANGED <<loads, engine_ready, response>>

\* a reader thread calls recommend at any point of the reload
NextReload ==
    \/ \E dataset \in Datasets : BeginReload(dataset)
    \/ ReloadCatalog
    \/ ReloadStudents
    \/ ReloadBorrowingHistory
    \/ \E student_id \in StudentIds : \E n \in 0..MaxN :
           Recommend(student_id, n) /\ UNCHANGED app_vars

SpecReload == Init /\ [][NextReload]_vars

\* ------------------------------------------------- the read operations
\* str.title() of a strategy tag
Title(strategy) ==
    CASE strategy = "collaborative" -> "Collaborative"
      [] strategy = "content"       -> "Content"
      [] strategy = "diversity"     -> "Diversity"
      [] strategy = "popularity"    -> "Popularity"
      [] OTHER                      -> strategy

PercentUnit == 10

\* explain_recommendation: the lines built from the recommendation's book,
\* confidence (format .0%) and strategy; the reason is passed through
ExplainRecommendation(recommendation) ==
    [book_id |-> recommendation.book_id,
     genres |-> BookGenre(recommendation.book_id),
     reading_level |-> BookLevel(recommendation.book_id),
     confidence_percent |-> (recommendation.confidence + PercentUnit \div 2) \div PercentUnit,
     strategy_used |-> Title(recommendation.strategy)]

\* explain_recommendation(recommendation), for the i-th recommendation of
\* the list recommend returned last
Explain(i) ==
    /\ call.op = "recommend" /\ ~ret.raised
    /\ i \in DOMAIN ret.recommendations
    /\ call' = [NoCall EXCEPT !.op = "explain", !.student_id = call.student_id,
                              !.book_id = ret.recommendations[i].book_id]
    /\ ret' = ExplainRecommendation(ret.recommendations[i])
    /\ UNCHANGED <<books_catalog, students, borrowing_records, collaborative_filter,
                   content_filter, hash_seed, loads>>

\* reloads of the engine with the three read operations between them
NextRead ==
    \/ \E dataset \in Datasets : BeginReload(dataset)
    \/ ReloadCatalog
    \/ ReloadStudents
    \/ ReloadBorrowingHistory
    \/ \E student_id \in StudentIds : \E n \in 0..MaxN :
           Recommend(student_id, n) /\ UNCHANGED app_vars
    \/ GetAnalytics /\ UNCHANGED app_vars
    \/ \E i \in 1..MaxN : Explain(i) /\ UNCHANGED app_vars

SpecRead == Init /\ [][NextRead]_vars

\* ------------------------------------------- the content filter alone
\* reading histories: an older book or none, then one book borrowed k times
ContentHistories ==
    {old \o [i \in 1..k |-> b] :
        old \in SeqsUpTo(BookIds, MaxHistory), b \in BookIds, k \in {0, 1, HistoryWindow}}

\* ContentBasedFilter.fit(books)
FitContent(books) ==
    /\ content_filter' = ContentFit(content_filter, books)
    /\ call' = [NoCall EXCEPT !.op = "content_fit", !.books = books]
    /\ ret' = NoRet
    /\ UNCHANGED <<books_catalog, students, borrowing_records, collaborative_filter,
                   hash_seed, loads>>

\* ContentBasedFilter.recommend(student, books_dict, n) for a student with
\* the reading history given
RecommendContent(student_id, reading_history, n) ==
    /\ call' = [NoCall EXCEPT !.op = "content_recommend", !.student_id = student_id,
                              !.students = [u \in {student_id} |-> reading_history],
                              !.n = n]
    /\ ret' = [NoRet EXCEPT !.content_recs =
                               ContentRecommend(content_filter, reading_history, n)]
    /\ UNCHANGED <<books_catalog, students, borrowing_records, collaborative_filter,
                   content_filter, hash_seed, loads>>

NextContent ==
    \/ \E books \in CatalogInputs : FitContent(books) /\ UNCHANGED app_vars
    \/ \E reading_history \in ContentHistories : \E n \in 0..(2 * MaxN) :
           RecommendContent("u1", reading_history, n) /\ UNCHANGED app_vars

SpecContent == Init /\ [][NextContent]_vars

\* ------------------------------------------------------ the application
\* the global recommendation_engine is bound to engine e
SetEngine(e) ==
    /\ books_catalog' = e.books_catalog
    /\ students' = e.students
    /\ borrowing_records' = e.borrowing_records
    /\ collaborative_filter' = e.collaborative_filter
    /\ content_filter' = e.content_filter
    /\ engine_ready' = TRUE

\* where initialize_engine stops: "none" runs to its end, "data" raises in
\* the generate-or-load step after the global was rebound, "remove" raises
\* in regenerate_data before initialize_engine is called
FailPoints == {"none", "data", "remove"}

\* initialize_engine(), left at fail_at
InitializeEngine(dataset, fail_at) ==
    IF fail_at = "data"
    THEN SetEngine(NewEngine)
    ELSE SetEngine(AfterReload(NewEngine, dataset, hash_seed))

\* lifespan: the application starts once initialize_engine has run
Lifespan(dataset) ==
    /\ ~engine_ready
    /\ CountLoad
    /\ InitializeEngine(dataset, "none")
    /\ reload' = [NoReload EXCEPT !.outcome = "done", !.dataset = dataset]
    /\ call' = NoCall /\ ret' = NoRet
    /\ UNCHANGED <<hash_seed, response>>

\* POST /api/regenerate-data
RegenerateData(dataset, fail_at) ==
    /\ engine_ready
    /\ CountLoad
    /\ IF fail_at = "remove"
       THEN UNCHANGED <<engine_vars, engine_ready>>
       ELSE InitializeEngine(dataset, fail_at)
    /\ reload' = [pc |-> "idle",
                  outcome |-> IF fail_at = "none" THEN "done" ELSE "failed",
                  dataset |-> dataset, before |-> Engine, before_ready |-> engine_ready,
                  after |-> NewEngine]
    /\ response' = IF fail_at = "none"
                   THEN [status |-> 200, detail |-> "Data regenerated successfully",
                         body |-> <<>>]
                   ELSE [status |-> 500, detail |-> "Exception", body |-> <<>>]
    /\ call' = NoCall /\ ret' = NoRet
    /\ UNCHANGED hash_seed

\* the response built from what recommend returned: Book has no
\* average_rating, so building the first BookResponse raises
RecommendationsResponse(r) ==
    IF r.raised
    THEN [status |-> 500, detail |-> "KeyError", body |-> <<>>]
    ELSE IF r.recommendations # <<>>
    THEN [status |-> 500, detail |-> "AttributeError", body |-> <<>>]
    ELSE [status |-> 200, detail |-> "", body |-> <<>>]

\* GET /api/recommendations/{student_id}
GetRecommendations(student_id, n) ==
    IF ~engine_ready
    THEN /\ response' = [status |-> 500, detail |-> "Engine not initialized",
                         body |-> <<>>]
         /\ call' = NoCall /\ ret' = NoRet
         /\ UNCHANGED <<engine_vars, hash_seed, loads, engine_ready, reload>>
    ELSE /\ Recommend(student_id, n)
         /\ response' = RecommendationsResponse(ret')
         /\ UNCHANGED <<engine_ready, reload>>

\* requests are served one at a time on the event loop
NextApp ==
    \/ \E dataset \in Datasets : Lifespan(dataset)
    \/ \E dataset \in Datasets : \E fail_at \in FailPoints :
           RegenerateData(dataset, fail_at)
    \/ \E student_id \in StudentIds : \E n \in 0..MaxN :
           GetRecommendations(student_id, n)

SpecApp == Init /\ [][NextApp]_vars

\* ------------------------------------------------------------ the enhancer
\* base scores handed to the enhancer, in thousandths
BaseStep == 50

BaseScores == {k * BaseStep : k \in 0..MaxBase}

\* _mock_llm_enhancement: the reasons list, one entry per rule that fired;
\* the interest entry names list(interest_keywords & description_words)[0]
MockReasons(student_id, book_id, seed) ==
    LET matched_genres == SelectSeq(BookGenre(book_id),
                              LAMBDA g : Contains(StudentPreferredGenres(student_id), g))
        common == InterestKeywords(student_id) \cap DescriptionWords(book_id)
    IN    (IF matched_genres # <<>>
           THEN <<[rule |-> "genre", names |-> matched_genres[1]]>> ELSE <<>>)
       \o (IF BookLevel(book_id) = StudentLevel(student_id)
           THEN <<[rule |-> "level", names |-> ""]>> ELSE <<>>)
       \o (IF common # {}
           THEN <<[rule |-> "interest", names |-> SetOrder(seed, common)[1]]>> ELSE <<>>)

\* _mock_llm_enhancement: (enhanced_score, explanation); the explanation is
\* the clauses joined by ' and ', or the generic sentence
MockLlmEnhancement(student_id, book_id, base_score, seed) ==
    LET reasons == MockReasons(student_id, book_id, seed)
    IN  [score |-> EnhancedScore(student_id, book_id, base_score),
         generic |-> reasons = <<>>,
         clauses |-> reasons]

\* enhance_recommendation(student, book, base_score)
Enhance(student_id, book_id, base_score) ==
    /\ call' = [NoCall EXCEPT !.op = "enhance", !.student_id = student_id,
                              !.book_id = book_id, !.base_score = base_score]
    /\ ret' = MockLlmEnhancement(student_id, book_id, base_score, hash_seed)
    /\ UNCHANGED <<engine_vars, hash_seed, loads, app_vars>>

NextEnhance ==
    \E student_id \in StudentIds : \E book_id \in BookIds : \E base_score \in BaseScores :
        Enhance(student_id, book_id, base_score)

SpecEnhance == Init /\ [][NextEnhance]_vars

\* ======================================================= checked properties
Called == call.op = "recommend"

Returned == Called /\ ~ret.raised

BookIdsOf(recs) == [i \in DOMAIN recs |-> recs[i].book_id]

\* position of book b in the catalog dict
CatalogPosition(b) == CHOOSE i \in DOMAIN books_catalog : books_catalog[i].book_id = b

\* C1: the list recommend returns never holds two recommendations of the
\* same item id.
C1_NoDuplicateItemIds == Returned => NoRepeat(BookIdsOf(ret.recommendations))

\* C2: recommend(userId, n) returns a list of at most n recommendations for
\* every user id and n >= 0, and for n = 0 the empty list, without raising.
C2_AtMostNAndNeverRaises ==
    Called => /\ ~ret.raised
              /\ Len(ret.recommendations) <= call.n
              /\ (call.n = 0 => ret.recommendations = <<>>)

\* C3: every recommendation returned has a score in [0, 1], whichever
\* strategy produced it.
C3_ScoresInUnitInterval ==
    Returned => \A i \in DOMAIN ret.recommendations :
                    /\ ret.recommendations[i].score >= 0
                    /\ ret.recommendations[i].score <= Scale

\* a returned list with a clamped collaborative score beside a diversity one
C3_Witness ==
    /\ Returned
    /\ \E i, j \in DOMAIN ret.recommendations :
          /\ ret.recommendations[i].strategy = "collaborative"
          /\ ret.recommendations[i].score = Scale
          /\ ret.recommendations[j].strategy = "diversity"
          /\ ret.recommendations[j].score > DiversityBase

\* C4: for an unknown user id recommend returns exactly the first n items of
\* the stable descending sort of the catalog by popularity: every entry
\* carries its item's popularity as score, strategy 'popularity' and
\* confidence 0.5; the entries descend, equal scores in catalog order; every
\* item left out ranks after every item returned; nothing else contributes.
C4_UnknownUserPopularitySort ==
    (Called /\ call.student_id \notin DOMAIN students) =>
        LET recs == ret.recommendations
            before(a, b) ==
                \/ Popularity(books_catalog, a) > Popularity(books_catalog, b)
                \/ /\ Popularity(books_catalog, a) = Popularity(books_catalog, b)
                   /\ CatalogPosition(a) < CatalogPosition(b)
        IN  /\ ~ret.raised
            /\ Len(recs) = Min2(call.n, Len(books_catalog))
            /\ \A i \in DOMAIN recs :
                  /\ InCatalog(books_catalog, recs[i].book_id)
                  /\ recs[i].score = Popularity(books_catalog, recs[i].book_id)
                  /\ recs[i].strategy = "popularity"
                  /\ recs[i].confidence = PopularityConfidence
            /\ \A i, j \in DOMAIN recs : i < j => before(recs[i].book_id, recs[j].book_id)
            /\ \A b \in CatalogIds(books_catalog) \ Range(BookIdsOf(recs)) :
                  \A i \in DOMAIN recs : before(recs[i].book_id, b)
            /\ ret.collab_recs = <<>> /\ ret.content_recs = <<>> /\ ret.candidates = <<>>

\* an unknown user's list that had a tie to break and an item to leave out
C4_Witness ==
    /\ Called /\ call.student_id \notin DOMAIN students
    /\ Len(ret.recommendations) = 2
    /\ Len(books_catalog) = 3
    /\ ret.recommendations[1].score = ret.recommendations[2].score
    /\ \E i \in DOMAIN books_catalog :
          books_catalog[i].popularity_score < ret.recommendations[2].score

\* C5: each loader is a full replace: after load_catalog the catalog holds
\* exactly the items passed, after load_students the student store exactly
\* the users passed, after load_borrowing_history exactly the records passed.
C5_LoadersFullReplace ==
    /\ call.op = "load_catalog" => CatalogIds(books_catalog) = Range(call.books)
    /\ call.op = "load_students" => students = call.students
    /\ call.op = "load_borrowing_history" => borrowing_records = call.records

\* C6: after a load sequence ending with load_borrowing_history every
\* catalog item's popularity is in [0, 1], and 0 for an item without an
\* interaction in the records just loaded.
C6_PopularityRecomputed ==
    call.op = "load_borrowing_history" =>
        \A i \in DOMAIN books_catalog :
            /\ books_catalog[i].popularity_score >= 0
            /\ books_catalog[i].popularity_score <= Scale
            /\ (\A k \in DOMAIN borrowing_records :
                    borrowing_records[k].book_id # books_catalog[i].book_id)
                  => books_catalog[i].popularity_score = 0

\* C7: the item ids the content model was fitted on are the item ids of the
\* catalog store.
C7_ContentModelCoversCatalog ==
    Range(content_filter.book_ids) = CatalogIds(books_catalog)

\* C8: when the log fitted last has fewer than 2 distinct users,
\* collaborative recommend for a user of that log returns the empty list.
C8_NoSimilarityBelowTwoUsers ==
    (/\ Called
     /\ call.student_id \in DOMAIN students
     /\ Len(collaborative_filter.user_item_matrix.index) < 2
     /\ Contains(collaborative_filter.user_item_matrix.index, call.student_id))
        => ~ret.raised /\ ret.collab_recs = <<>>

\* C9: a reader calling recommend beside a reload observes the complete
\* state before the reload or the complete state after it, never a mixture.
C9_ReaderSeesOldOrNew ==
    (Called /\ reload.outcome # "none") => Engine = reload.before \/ Engine = reload.after

\* C10: a reload that fails part-way changes nothing: the stores, the
\* models and the engine served to readers are as before the reload.
C10_FailedReloadChangesNothing ==
    reload.outcome = "failed" =>
        Engine = reload.before /\ engine_ready = reload.before_ready

\* the base score a model handed over for the book of a candidate
BaseOf(recs, b) == recs[CHOOSE j \in DOMAIN recs : recs[j].book_id = b].score

\* C11: the enhancer's adjusted score is never lower than the base score,
\* also for the base scores the collaborative model passes.
C11_EnhancedNeverBelowBase ==
    Returned =>
        \A i \in DOMAIN ret.candidates :
            /\ ret.candidates[i].strategy = "collaborative"
                  => ret.candidates[i].score
                        >= BaseOf(ret.collab_recs, ret.candidates[i].book_id)
            /\ ret.candidates[i].strategy = "content"
                  => ret.candidates[i].score
                        >= BaseOf(ret.content_recs, ret.candidates[i].book_id)

Enhanced == call.op = "enhance"

\* C12: the adjusted score is min(1.0, base + 0.10 for a genre of the item
\* among the preferred genres + 0.05 for equal reading levels + 0.15 for an
\* interest token among the description tokens), hence at most 1.0.
C12_EnhancedScoreRule ==
    Enhanced =>
        LET genre_hit == Range(BookGenre(call.book_id))
                            \cap Range(StudentPreferredGenres(call.student_id)) # {}
            level_hit == BookLevel(call.book_id) = StudentLevel(call.student_id)
            interest_hit == \E w \in InterestKeywords(call.student_id) :
                                w \in DescriptionWords(call.book_id)
            sum == call.base_score + (IF genre_hit THEN 100 ELSE 0)
                     + (IF level_hit THEN 50 ELSE 0) + (IF interest_hit THEN 150 ELSE 0)
        IN  /\ ret.score = (IF sum < 1000 THEN sum ELSE 1000)
            /\ ret.score <= 1000

\* all three rules fired and the cap cut the sum
C12_Witness ==
    /\ Enhanced
    /\ Len(ret.clauses) = 3
    /\ call.base_score + GenreBoost + LevelBoost + InterestBoost > Scale
    /\ call.base_score < Scale
    /\ ret.score = Scale

\* C13: the reason is the generic sentence exactly when no rule fired,
\* otherwise the clauses of the rules that fired in the order genre, level,
\* interest, and it is a function of (user, item, base score) alone.
C13_ReasonDetermined ==
    Enhanced =>
        /\ ret.generic <=> ScoreBoost(call.student_id, call.book_id) = 0
        /\ \A i, j \in DOMAIN ret.clauses :
              i < j => <<ret.clauses[i].rule, ret.clauses[j].rule>>
                          \in {<<"genre", "level">>, <<"genre", "interest">>,
                               <<"level", "interest">>}
        /\ \A seed \in HashSeeds :
              ret.clauses = MockReasons(call.student_id, call.book_id, seed)

KnownCall == Called /\ call.student_id \in DOMAIN students

\* C14: for a known user with an empty reading history the content step
\* contributes nothing and every recommendation returned is tagged
\* 'collaborative' or 'diversity'.
C14_EmptyHistoryNoContent ==
    (KnownCall /\ ~ret.raised /\ students[call.student_id] = <<>>) =>
        /\ ret.content_recs = <<>>
        /\ \A i \in DOMAIN ret.recommendations :
              ret.recommendations[i].strategy \in {"collaborative", "diversity"}

\* an empty history in front of a fitted content model, both tags returned
C14_Witness ==
    /\ KnownCall /\ ~ret.raised /\ students[call.student_id] = <<>>
    /\ ~content_filter.none /\ Len(content_filter.book_ids) >= 2
    /\ \E i, j \in DOMAIN ret.recommendations :
          /\ ret.recommendations[i].strategy = "collaborative"
          /\ ret.recommendations[j].strategy = "diversity"

\* the scenario: catalog b1 (Fantasy, 3-5), b2 (Mystery, 3-5), b3 (Fantasy,
\* 6-8); u1 (3-5, prefers Fantasy) the one user, no history; no interactions
ScenarioA ==
    /\ CatalogIds(books_catalog) = {"b1", "b2", "b3"}
    /\ DOMAIN students = {"u1"} /\ students["u1"] = <<>>
    /\ borrowing_records = <<>>
    /\ Called /\ call.student_id = "u1" /\ call.n = 2

\* C15: in the scenario recommend(u1, 2) returns exactly b1 and b2 in some
\* order, each tagged 'diversity' with confidence 0.6, and never b3.
C15_ScenarioDiversityOnly ==
    ScenarioA =>
        /\ ~ret.raised
        /\ Len(ret.recommendations) = 2
        /\ Range(BookIdsOf(ret.recommendations)) = {"b1", "b2"}
        /\ \A i \in DOMAIN ret.recommendations :
              /\ ret.recommendations[i].strategy = "diversity"
              /\ ret.recommendations[i].confidence = 600

\* the scenario with b3 first in the catalog
C15_Witness ==
    /\ ScenarioA
    /\ books_catalog[1].book_id = "b3"
    /\ Len(ret.recommendations) = 2

\* the user of the call has a record for book b in the fitted log
Interacted(u, b) ==
    \E k \in DOMAIN borrowing_records :
        borrowing_records[k].student_id = u /\ borrowing_records[k].book_id = b

InMatrix(u) == Contains(collaborative_filter.user_item_matrix.index, u)

\* C16: for a user in the fitted interaction matrix collaborative recommend
\* never returns an item the user has a recorded interaction with.
C16_NoInteractedItems ==
    (KnownCall /\ ~ret.raised /\ InMatrix(call.student_id)) =>
        \A i \in DOMAIN ret.collab_recs :
            ~Interacted(call.student_id, ret.collab_recs[i].book_id)

\* a neighbour shares an item with the user and brings another one
C16_Witness ==
    /\ KnownCall /\ ~ret.raised /\ InMatrix(call.student_id)
    /\ ret.collab_recs # <<>>
    /\ \E v \in StudentIds \ {call.student_id} : \E b \in BookIds :
          /\ Interacted(v, b) /\ Interacted(call.student_id, b)
          /\ collaborative_filter.user_similarity_matrix.val[call.student_id][v] > 0

Analysed == call.op = "get_analytics"

\* C17: for any loaded catalog and history, also a history naming items
\* that are not in the catalog, get_analytics reports a catalog coverage
\* within [0, 1].
C17_CoverageInUnitInterval ==
    Analysed => ret.catalog_coverage >= 0 /\ ret.catalog_coverage <= Scale

\* the records of the log whose book is in the catalog
CatalogRecords(catalog, records) ==
    {k \in DOMAIN records : InCatalog(catalog, records[k].book_id)}

\* the similarity matrix is the one of an earlier fit
StaleSimilarity(cf) ==
    /\ ~cf.user_similarity_matrix.none
    /\ Range(cf.user_similarity_matrix.index) # Range(cf.user_item_matrix.index)

\* C18: an item id of the log or of a model's output that is not in the
\* catalog is skipped: recommend returns catalog items only and raises only
\* over a stale similarity matrix, load_borrowing_history adds no catalog
\* entry and leaves the books it did not count alone, get_analytics counts
\* the genres of catalog records only.
C18_AbsentItemsSkipped ==
    [][/\ (call'.op = "recommend" /\ ~ret'.raised) =>
              \A i \in DOMAIN ret'.recommendations :
                  InCatalog(books_catalog', ret'.recommendations[i].book_id)
       /\ (call'.op = "recommend" /\ ret'.raised) => StaleSimilarity(collaborative_filter')
       /\ call'.op = "get_analytics" =>
              LET gd == ret'.genre_distribution
              IN  /\ \A g \in DOMAIN gd :
                        \E k \in CatalogRecords(books_catalog', borrowing_records') :
                            g \in Range(BookGenre(borrowing_records'[k].book_id))
                  /\ SeqSum([k \in DOMAIN borrowing_records' |->
                                IF k \in CatalogRecords(books_catalog', borrowing_records')
                                THEN Len(BookGenre(borrowing_records'[k].book_id)) ELSE 0])
                        = Cardinality({<<g, c>> \in (DOMAIN gd) \X (1..Len(borrowing_records')) :
                                              c <= gd[g]})
       /\ borrowing_records' # borrowing_records =>
              /\ BookIdsOf(books_catalog') = BookIdsOf(books_catalog)
              /\ \A i \in DOMAIN books_catalog :
                    (\A k \in DOMAIN borrowing_records' :
                         borrowing_records'[k].book_id # books_catalog[i].book_id)
                      => books_catalog'[i] = books_catalog[i]
      ]_vars

\* the log and the collaborative output name a book that is not in the
\* catalog, and recommend returned a list
C18_Witness ==
    /\ KnownCall /\ ~ret.raised
    /\ ret.recommendations # <<>>
    /\ \E i \in DOMAIN ret.collab_recs :
          i <= call.n \div 2 /\ ~InCatalog(books_catalog, ret.collab_recs[i].book_id)
    /\ \E k \in DOMAIN borrowing_records :
          ~InCatalog(books_catalog, borrowing_records[k].book_id)

C20_ReadsChangeNothing ==
    [][call'.op \in {"recommend", "get_analytics", "explain"} =>
          /\ Engine' = Engine
          /\ call'.op = "recommend" =>
                ret' = EngineRecommend(books_catalog', students', collaborative_filter',
                                       content_filter', call'.student_id, call'.n)
          /\ call'.op = "get_analytics" =>
                ret' = Analytics(books_catalog', students', borrowing_records')
      ]_vars

\* an explanation of a recommendation drawn from a fitted engine
C20_Witness ==
    /\ call.op = "explain"
    /\ ret.strategy_used = "Collaborative"
    /\ borrowing_records # <<>>
    /\ ~content_filter.none

\* the entries of the accumulated list that a step appended
StepEntries(candidates, strategy) ==
    SelectSeq(candidates, LAMBDA r : r.strategy = strategy)

\* C21: the collaborative step contributes min(n div 2, number of its
\* candidates that are catalog items) recommendations, and the content step
\* min(n div 2, number of its candidates that are catalog items and not
\* already listed): a candidate that does not qualify consumes no slot.
C21_UnqualifiedTakesNoSlot ==
    (KnownCall /\ ~ret.raised) =>
        LET half   == call.n \div 2
            collab == StepEntries(ret.candidates, "collaborative")
            listed == {collab[i].book_id : i \in DOMAIN collab}
        IN  /\ Len(collab) =
                  Min2(half, Cardinality({i \in DOMAIN ret.collab_recs :
                                 InCatalog(books_catalog, ret.collab_recs[i].book_id)}))
            /\ Len(StepEntries(ret.candidates, "content")) =
                  Min2(half, Cardinality({i \in DOMAIN ret.content_recs :
                                 /\ InCatalog(books_catalog, ret.content_recs[i].book_id)
                                 /\ ret.content_recs[i].book_id \notin listed}))

\* the genres of the history items of u that the catalog holds
ExploredGenres(u) ==
    UNION {Range(BookGenre(b)) :
              b \in {h \in Range(students[u]) : InCatalog(books_catalog, h)}}

\* the catalog entry is one the diversity step may append for u
Diverse(u, entry) ==
    /\ ~Contains(students[u], entry.book_id)
    /\ BookLevel(entry.book_id) = StudentLevel(u)
    /\ Range(BookGenre(entry.book_id)) \ ExploredGenres(u) # {}

\* C22: the diversity step runs only when the accumulated list is shorter
\* than n, appends in catalog order and stops when the list holds n; every
\* item it appends is outside the reading history, at the user's reading
\* level and has a genre outside those of the history items, and is scored
\* 0.7 + 0.3 x popularity.
C22_DiversityFallback ==
    (KnownCall /\ ~ret.raised) =>
        LET u      == call.student_id
            div    == StepEntries(ret.candidates, "diversity")
            before == Len(ret.candidates) - Len(div)
            open   == SelectSeq(books_catalog, LAMBDA e : Diverse(u, e))
        IN  /\ SubSeq(ret.candidates, before + 1, Len(ret.candidates)) = div
            /\ before >= call.n => div = <<>>
            /\ before < call.n =>
                  BookIdsOf(div) = BookIdsOf(Take(open, call.n - before))
            /\ \A i \in DOMAIN div :
                  /\ Diverse(u, [book_id |-> div[i].book_id])
                  /\ div[i].score = DiversityBase
                        + (Popularity(books_catalog, div[i].book_id) * DiversityWeight)
                              \div Scale

\* the scan stopped at n with another book open to it, after a step before
\* it had filled a slot
C22_Witness ==
    /\ KnownCall /\ ~ret.raised
    /\ Len(StepEntries(ret.candidates, "diversity")) = 1
    /\ Len(ret.candidates) = call.n
    /\ Len(ret.candidates) > 1
    /\ Cardinality({i \in DOMAIN books_catalog :
                       Diverse(call.student_id, books_catalog[i])}) > 1

\* C23: the list returned for a known user is in non-increasing score order
\* over all strategies, and recommendations of equal score keep the order in
\* which they were accumulated (collaborative, content, diversity).
C23_SortedStableAcrossSteps ==
    (KnownCall /\ ~ret.raised) =>
        \E f \in [DOMAIN ret.recommendations -> DOMAIN ret.candidates] :
            /\ \A i \in DOMAIN f : ret.recommendations[i] = ret.candidates[f[i]]
            /\ \A i, j \in DOMAIN f : i < j =>
                  \/ ret.recommendations[i].score > ret.recommendations[j].score
                  \/ /\ ret.recommendations[i].score = ret.recommendations[j].score
                     /\ f[i] < f[j]
            /\ Len(ret.recommendations) = Min2(call.n, Len(ret.candidates))

\* two steps gave the same score, and the earlier step's entry comes first
C23_Witness ==
    /\ KnownCall /\ ~ret.raised
    /\ \E i, j \in DOMAIN ret.recommendations :
          /\ i < j
          /\ ret.recommendations[i].score = ret.recommendations[j].score
          /\ ret.recommendations[i].strategy # ret.recommendations[j].strategy

\* the users of the fitted matrix other than u, most similar to u first
OtherUsers(u) ==
    LET m  == collaborative_filter.user_item_matrix
        sm == collaborative_filter.user_similarity_matrix
    IN  SortDesc(SelectSeq(m.index, LAMBDA v : v # u), LAMBDA v : sm.val[u][v])

\* C24: for a user of the interaction matrix, at least 2 users fitted, the
\* neighbours of collaborative recommend are the 5 most similar other users
\* and never the user itself, also when another user's similarity ties the
\* user's self-similarity; the items returned are those the user has not
\* interacted with, each scored by the sum over the neighbours of weight x
\* similarity, the highest first.
C24_NeighboursExcludeSelf ==
    (KnownCall /\ ~ret.raised /\ InMatrix(call.student_id)
        /\ Len(collaborative_filter.user_item_matrix.index) >= 2) =>
        LET u  == call.student_id
            m  == collaborative_filter.user_item_matrix
            sm == collaborative_filter.user_similarity_matrix
            neighbours == SimilarUsers(collaborative_filter, u)
            others == Take(OtherUsers(u), NeighbourCount - 1)
            score(b) == SeqSum([i \in DOMAIN others |->
                            m.val[others[i]][b] * sm.val[u][others[i]]
                                * (Scale \div (WeightUnit * SimScale))])
            open == {b \in Range(m.columns) :
                        /\ m.val[u][b] = 0
                        /\ \E i \in DOMAIN others : m.val[others[i]][b] > 0}
        IN  /\ u \notin Range(neighbours)
            /\ Range(neighbours) = Range(others)
            /\ Len(ret.collab_recs) = Min2(2 * call.n, Cardinality(open))
            /\ \A i \in DOMAIN ret.collab_recs :
                  /\ ret.collab_recs[i].book_id \in open
                  /\ ret.collab_recs[i].score = score(ret.collab_recs[i].book_id)
                  /\ \A j \in DOMAIN ret.collab_recs :
                        i < j => ret.collab_recs[i].score >= ret.collab_recs[j].score

\* the reading history passed to the content filter's recommend
HistoryOfCall == call.students[call.student_id]

\* C25: content recommend builds the profile from the most recent history
\* ids that are in the fitted model; asked for at least one book of a model
\* that holds a book the user has not read, it returns the empty list only
\* when no id of the history is in the fitted model, also when the 10 most
\* recent ids are not fitted and an older one is.
C25_EmptyOnlyWithoutFittedHistory ==
    (/\ call.op = "content_recommend" /\ call.n >= 1
     /\ ~content_filter.none
     /\ \E i \in DOMAIN content_filter.book_ids :
            ~Contains(HistoryOfCall, content_filter.book_ids[i])) =>
        (ret.content_recs = <<>>
            <=> \A k \in DOMAIN HistoryOfCall :
                    ~Contains(content_filter.book_ids, HistoryOfCall[k]))

\* the data of a reload is loaded and no reload is under way
DataLoaded == reload.pc = "idle" /\ reload.outcome = "done"

\* C26: after loading data, recommend(student_id, n) with n >= 1 for a
\* known student returns a non-empty list whenever the catalog holds an item
\* outside the student's history, at the student's reading level, with a
\* genre the student has not explored.
C26_NonEmptyWhenDiverseItem ==
    (/\ KnownCall /\ call.n >= 1 /\ DataLoaded
     /\ \E i \in DOMAIN books_catalog : Diverse(call.student_id, books_catalog[i])) =>
        (~ret.raised /\ ret.recommendations # <<>>)

\* C27: for a known user and any n >= 0 the accumulated list holds at most
\* n entries before the final sort and truncation: the collaborative and the
\* content step add at most n div 2 each, the diversity step stops at n, and
\* the truncation discards nothing.
C27_CandidatesAtMostN ==
    (KnownCall /\ ~ret.raised) =>
        /\ Len(ret.candidates) <= call.n
        /\ Len(StepEntries(ret.candidates, "collaborative")) <= call.n \div 2
        /\ Len(StepEntries(ret.candidates, "content")) <= call.n \div 2
        /\ Len(ret.recommendations) = Len(ret.candidates)

\* the first two steps filled the list and the catalog holds a book the
\* diversity step would append
C27_Witness ==
    /\ KnownCall /\ ~ret.raised /\ call.n >= 1
    /\ StepEntries(ret.candidates, "collaborative") # <<>>
    /\ StepEntries(ret.candidates, "content") # <<>>
    /\ StepEntries(ret.candidates, "diversity") = <<>>
    /\ \E i \in DOMAIN books_catalog : Diverse(call.student_id, books_catalog[i])

\* C28: for a known user no recommendation returned refers to an item of
\* the user's reading history, whichever step produced it.
C28_NoHistoryItemReturned ==
    (KnownCall /\ ~ret.raised) =>
        \A i \in DOMAIN ret.recommendations :
            ~Contains(students[call.student_id], ret.recommendations[i].book_id)

\* C29: once the engine is initialised and loaded, GET
\* /api/recommendations/{student_id}?n=k answers 200 with exactly the list
\* engine.recommend(student_id, k) returns, in its order, also a non-empty
\* one, and never with a 500 error.
C29_RecommendationsServed ==
    (engine_ready /\ call.op = "recommend") =>
        /\ response.status = 200
        /\ BookIdsOf(response.body) = BookIdsOf(ret.recommendations)

\* the engine is one on which a whole data set was loaded
FullyLoaded == \E dataset \in Datasets : Engine = AfterReload(NewEngine, dataset, hash_seed)

\* C30: a handler answers 500 'Engine not initialized' whenever the engine
\* is not ready, and never serves a request from an engine whose catalog,
\* students, history and models were not all loaded, also after a
\* regenerate-data call that failed.
C30_NeverServesUnloadedEngine ==
    /\ (~engine_ready /\ response # NoResponse) =>
           (response.status = 500 /\ response.detail = "Engine not initialized")
    /\ call.op = "recommend" => FullyLoaded

====
